---- MODULE Spec2Model ----
(***************************************************************************)
(* Model of the Canvas of src/main.rs: a Vec of Arc<RwLock<dyn Shape>>     *)
(* slots, the handles that add() returns, and threads that read and write  *)
(* slots through the canvas methods or through the handles directly.       *)
(*                                                                         *)
(* A slot pointer is the index of the slot in `slots` (the heap of         *)
(* RwLock cells, in allocation order).  f64 values are modelled by         *)
(* integers: the code only copies coordinates, and areas are kept exact    *)
(* as a multiple of PI plus a number of halves.                            *)
(***************************************************************************)
EXTENDS Integers, Sequences, FiniteSets, TLC

\* ---------------------------------------------------------------- bounds
MaxShapes  == 2      \* add calls per run
MaxHandles == 2      \* external handles (returned by add, or cloned)
NumStress  == 2      \* handles of the stress run (100 in the test)
NumOps     == 2      \* calls of each thread in the finite run

Threads == {1, 2}    \* the two worker threads of tests::concurrent_access

\* origins used by the tests, with x # y in one of them
Points == {<<10, 10>>, <<20, 21>>}

NoThread == 0
NoPoint  == <<0, 0>>

\* what a call returns: a tag and a pair of numbers (an origin or an area)
None     == [tag |-> "None", val |-> NoPoint]     \* Option::None
Some(v)  == [tag |-> "Some", val |-> v]           \* Option::Some(v)
Val(v)   == [tag |-> "Val", val |-> v]            \* v itself
Unit     == [tag |-> "Unit", val |-> NoPoint]     \* ()
Panicked == [tag |-> "Panic", val |-> NoPoint]    \* the thread unwound
NoRet    == [tag |-> "NoRet", val |-> NoPoint]    \* nothing returned yet

VARIABLES
  slots,     \* heap: sequence of RwLock<Shape> cells
  shapes,    \* Canvas.shapes: sequence of slot pointers
  handles,   \* external handles: the slot pointer of each, and the number
             \* of the add call it comes from (history)
  th,        \* per thread: the call it is in and its position in it
  ret,       \* per thread: the value its last finished call returned
  hist,      \* history, per add call: the shape inserted, and the origins
             \* written since through the handles that come from that call
  todo,      \* stress run, per thread: the handles it has still to write;
             \* finite run, per thread: the calls it has still to make
  strong,    \* per slot: the strong count of its Arc, 0 once it is freed
  dropped,   \* the canvas went out of scope
  other,     \* shapes of a second Canvas, one that issued none of the handles
  foreign    \* per thread: its call is made on the second Canvas

vars == <<slots, shapes, handles, th, ret, hist, todo, strong, dropped, other,
          foreign>>

\* ------------------------------------------------------------- shape.rs
Circle(radius, origin) ==
  [kind |-> "Circle", radius |-> radius, origin |-> origin]

Rectangle(width, height, origin) ==
  [kind |-> "Rectangle", width |-> width, height |-> height, origin |-> origin]

Triangle(base, height, origin) ==
  [kind |-> "Triangle", base |-> base, height |-> height, origin |-> origin]

\* the three kinds of shape, with the dimensions of tests::shared_handle
\* and origins among Points
ShapeInputs ==
  {Circle(5, <<10, 10>>), Rectangle(4, 6, <<20, 21>>), Triangle(3, 4, <<10, 10>>)}

\* the shape of tests::concurrent_access
RectInputs == {Rectangle(4, 5, <<10, 10>>)}

\* the area pi * PI + halves / 2, exact, as the pair <<pi, halves>>
Area(pi, halves) == <<pi, halves>>

get_area(s) ==
  CASE s.kind = "Circle"    -> Area(s.radius * s.radius, 0)
    [] s.kind = "Rectangle" -> Area(0, 2 * s.width * s.height)
    [] s.kind = "Triangle"  -> Area(0, s.base * s.height)

origin(s) == s.origin

\* `self.origin = origin` stores the two f64 of the pair one after the other
store_x(s, p) == [s EXCEPT !.origin = <<p[1], s.origin[2]>>]

\* the second store as it would be if it stayed in a buffer
store_y_lost(s, p) == s

store_y(s, p) == [s EXCEPT !.origin = <<s.origin[1], p[2]>>]

set_origin(s, p) == store_y(store_x(s, p), p)

\* ------------------------------------------------------ Arc<RwLock<S>>
RwLock_from(shape) ==
  [shape |-> shape, readers |-> {}, writer |-> NoThread, poisoned |-> FALSE]

Arc_clone(p) == p

\* read() as it would be if it did not wait for the writer
CanRead_any(cell) == TRUE

\* read() blocks while a writer holds the lock
CanRead(cell) == cell.writer = NoThread

\* write() as it would be if it waited for the writer only
CanWrite_readers(cell) == cell.writer = NoThread

\* write() as it would be if it waited for nobody
CanWrite_nobody(cell) == TRUE

\* write() blocks while anyone holds the lock
CanWrite(cell) == cell.writer = NoThread /\ cell.readers = {}

\* ------------------------------------------------------------- threads
CanvasOps == {"get_area", "get_origin", "set_origin"}
DirectOps == {"read", "write"}
ReadOps   == {"get_area", "get_origin", "read"}
WriteOps  == {"set_origin", "write"}

Idle == [pc |-> "idle", op |-> "none", slot |-> 0, of |-> 0, arg |-> NoPoint,
         ok |-> FALSE]
Dead == [Idle EXCEPT !.pc = "panicked"]

\* a reference is an external handle or the canvas's own copy in shapes
Refs ==
  {<<"handle", i>> : i \in 1..Len(handles)} \cup
  {<<"canvas", i>> : i \in 1..Len(shapes)}

Deref(r) == IF r[1] = "handle" THEN handles[r[2]].ptr ELSE shapes[r[2]]

\* history: the number of the add call the reference comes from
AddOf(r) == IF r[1] = "handle" THEN handles[r[2]].of ELSE r[2]

InCanvasCall(t) == th[t].pc \notin {"idle", "panicked"} /\ th[t].op \in CanvasOps

NoHist == None

NewHist(shape) ==
  [init |-> shape, acq |-> NoHist, last |-> NoHist]

Init ==
  /\ slots = <<>>
  /\ shapes = <<>>
  /\ handles = <<>>
  /\ th = [t \in Threads |-> Idle]
  /\ ret = [t \in Threads |-> NoRet]
  /\ hist = <<>>
  /\ todo = [t \in Threads |-> {}]
  /\ strong = <<>>
  /\ dropped = FALSE
  /\ other = <<>>
  /\ foreign = [t \in Threads |-> FALSE]

\* ----------------------------------------------------------- Canvas::add
\* add as it would be if it handed out a handle to the first slot of the
\* canvas instead of the new one
add_first(sl, sh, shape) ==
  LET p == Len(sl) + 1 IN
  [slots |-> Append(sl, RwLock_from(shape)),
   shapes |-> Append(sh, Arc_clone(p)),
   handle |-> 1]

\* add as it would be if it put the new slot in front of the others
add_front(sl, sh, shape) ==
  LET p == Len(sl) + 1 IN
  [slots |-> Append(sl, RwLock_from(shape)),
   shapes |-> <<Arc_clone(p)>> \o sh,
   handle |-> p]

add(sl, sh, shape) ==
  LET p == Len(sl) + 1 IN
  [slots |-> Append(sl, RwLock_from(shape)),
   shapes |-> Append(sh, Arc_clone(p)),
   handle |-> p]

\* add as it would be if it went through the slots of the canvas and took
\* the lock of each before it pushed the new one
Add_waits(shape) ==
  /\ ~dropped
  /\ Len(shapes) < MaxShapes
  /\ Len(handles) < MaxHandles
  /\ \A t \in Threads : ~InCanvasCall(t)
  /\ \A s \in 1..Len(slots) : CanWrite(slots[s]) /\ ~slots[s].poisoned
  /\ LET r == add(slots, shapes, shape) IN
       /\ slots' = r.slots
       /\ shapes' = r.shapes
       /\ handles' = Append(handles, [ptr |-> r.handle, of |-> Len(shapes) + 1])
       /\ hist' = Append(hist, NewHist(shape))
       /\ strong' = Append(strong, 2)
  /\ UNCHANGED <<th, ret, todo, dropped, other, foreign>>

\* add as it would be if shapes kept a pointer that does not own the slot
\* (a Weak): the Arc that add returns is the only owner
Add_weak(shape) ==
  /\ ~dropped
  /\ Len(shapes) < MaxShapes
  /\ Len(handles) < MaxHandles
  /\ \A t \in Threads : ~InCanvasCall(t)
  /\ LET r == add(slots, shapes, shape) IN
       /\ slots' = r.slots
       /\ shapes' = r.shapes
       /\ handles' = Append(handles, [ptr |-> r.handle, of |-> Len(shapes) + 1])
       /\ hist' = Append(hist, NewHist(shape))
       /\ strong' = Append(strong, 1)
  /\ UNCHANGED <<th, ret, todo, dropped, other, foreign>>

\* add takes &mut self: no thread is inside a method of the canvas; the new
\* slot has two owners, the Arc that add returns and its clone in shapes
Add(shape) ==
  /\ ~dropped
  /\ Len(shapes) < MaxShapes
  /\ Len(handles) < MaxHandles
  /\ \A t \in Threads : ~InCanvasCall(t)
  /\ LET r == add(slots, shapes, shape) IN
       /\ slots' = r.slots
       /\ shapes' = r.shapes
       /\ handles' = Append(handles, [ptr |-> r.handle, of |-> Len(shapes) + 1])
       /\ hist' = Append(hist, NewHist(shape))
       /\ strong' = Append(strong, 2)
  /\ UNCHANGED <<th, ret, todo, dropped, other, foreign>>

\* clone as it would be if it copied the shape into a slot of its own
Clone_deep(i) ==
  /\ i \in 1..Len(handles)
  /\ Len(handles) < MaxHandles
  /\ slots' = Append(slots, RwLock_from(slots[handles[i].ptr].shape))
  /\ handles' = Append(handles, [ptr |-> Len(slots) + 1, of |-> handles[i].of])
  /\ strong' = Append(strong, 1)
  /\ UNCHANGED <<shapes, th, ret, hist, todo, dropped, other, foreign>>

\* handle.clone(): one more owner of the same slot
Clone(i) ==
  /\ i \in 1..Len(handles)
  /\ Len(handles) < MaxHandles
  /\ handles' = Append(handles, [ptr |-> Arc_clone(handles[i].ptr),
                                  of |-> handles[i].of])
  /\ strong' = [strong EXCEPT ![handles[i].ptr] = @ + 1]
  /\ UNCHANGED <<slots, shapes, th, ret, hist, todo, dropped, other, foreign>>

\* ------------------------------------------------------ read operations
\* read() as it would be if it were try_read(): an Err at once while a
\* writer holds the lock
LockRead_try(t, op, s, k) ==
  /\ th[t].pc = "idle"
  /\ slots' = IF CanRead(slots[s])
              THEN [slots EXCEPT ![s].readers = @ \cup {t}] ELSE slots
  /\ th' = [th EXCEPT ![t] = [pc |-> "locked", op |-> op, slot |-> s, of |-> k,
                              arg |-> NoPoint,
                              ok |-> CanRead(slots[s]) /\ ~slots[s].poisoned]]
  /\ ret' = [ret EXCEPT ![t] = NoRet]
  /\ UNCHANGED hist

\* shape.read() returns once no writer holds the lock (a blocked call is a
\* call that is not enabled) and reports the poison flag
LockRead(t, op, s, k) ==
  /\ th[t].pc = "idle"
  /\ CanRead(slots[s])
  /\ slots' = [slots EXCEPT ![s].readers = @ \cup {t}]
  /\ th' = [th EXCEPT ![t] = [pc |-> "locked", op |-> op, slot |-> s, of |-> k,
                              arg |-> NoPoint, ok |-> ~slots[s].poisoned]]
  /\ ret' = [ret EXCEPT ![t] = NoRet]
  /\ UNCHANGED hist

\* canvas.get_area(&h) and get_origin(&h) take a Handle<S> with S sized, so
\* only external handles; h.read() works on the canvas's own copies too
BeginRead(t, op, r) ==
  /\ op \in ReadOps
  /\ r \in Refs
  /\ op \in CanvasOps => (r[1] = "handle" /\ ~dropped)
  /\ LockRead(t, op, Deref(r), AddOf(r))
  /\ foreign' = [foreign EXCEPT ![t] = FALSE]
  /\ UNCHANGED <<shapes, handles, todo, strong, dropped, other>>

\* value of a read operation on the locked shape
ReadValue(op, shape) ==
  IF op = "get_area" THEN get_area(shape) ELSE origin(shape)

\* .ok().map(|s| ...) in the canvas, .unwrap() on a direct access
ReadResult(op, ok, shape) ==
  IF ok THEN (IF op \in CanvasOps THEN Some(ReadValue(op, shape))
              ELSE Val(ReadValue(op, shape)))
  ELSE (IF op \in CanvasOps THEN None ELSE Panicked)

\* the body of a read and the drop of its guard (the guard inside an Err is
\* dropped too)
EndRead(t) ==
  /\ th[t].pc = "locked"
  /\ th[t].op \in ReadOps
  /\ LET s == th[t].slot
         r == ReadResult(th[t].op, th[t].ok, slots[s].shape) IN
       /\ slots' = [slots EXCEPT ![s].readers = @ \ {t}]
       /\ ret' = [ret EXCEPT ![t] = r]
       /\ th' = [th EXCEPT ![t] = IF r = Panicked THEN Dead ELSE Idle]
  /\ UNCHANGED <<shapes, handles, hist, todo, strong, dropped, other, foreign>>

\* ----------------------------------------------------- write operations
\* write() as it would be if one lock guarded the whole canvas
LockWrite_global(t, op, s, k, p) ==
  /\ th[t].pc = "idle"
  /\ \A s2 \in 1..Len(slots) : CanWrite(slots[s2])
  /\ slots' = [slots EXCEPT ![s].writer = t]
  /\ th' = [th EXCEPT ![t] = [pc |-> "locked", op |-> op, slot |-> s, of |-> k,
                              arg |-> p, ok |-> ~slots[s].poisoned]]
  /\ hist' = [hist EXCEPT ![k].acq = IF slots[s].poisoned THEN @ ELSE Some(p)]
  /\ ret' = [ret EXCEPT ![t] = NoRet]

\* shape.write() returns once nobody holds the lock and reports the poison
\* flag
LockWrite(t, op, s, k, p) ==
  /\ th[t].pc = "idle"
  /\ CanWrite(slots[s])
  /\ slots' = [slots EXCEPT ![s].writer = t]
  /\ th' = [th EXCEPT ![t] = [pc |-> "locked", op |-> op, slot |-> s, of |-> k,
                              arg |-> p, ok |-> ~slots[s].poisoned]]
  /\ hist' = [hist EXCEPT ![k].acq = IF slots[s].poisoned THEN @ ELSE Some(p)]
  /\ ret' = [ret EXCEPT ![t] = NoRet]

\* canvas.set_origin(&h, p), or h.write().unwrap().set_origin(p)
BeginWrite(t, op, r, p) ==
  /\ op \in WriteOps
  /\ r \in Refs
  /\ op \in CanvasOps => (r[1] = "handle" /\ ~dropped)
  /\ LockWrite(t, op, Deref(r), AddOf(r), p)
  /\ foreign' = [foreign EXCEPT ![t] = FALSE]
  /\ UNCHANGED <<shapes, handles, todo, strong, dropped, other>>

\* write() returned Err: set_origin skips its body, unwrap() panics; the
\* guard inside the Err is dropped
WriteSkip(t) ==
  /\ th[t].pc = "locked"
  /\ th[t].op \in WriteOps
  /\ ~th[t].ok
  /\ LET s == th[t].slot IN
       slots' = [slots EXCEPT ![s].writer = NoThread]
  /\ ret' = [ret EXCEPT ![t] = IF th[t].op = "set_origin" THEN Unit
                               ELSE Panicked]
  /\ th' = [th EXCEPT ![t] = IF th[t].op = "set_origin" THEN Idle ELSE Dead]
  /\ UNCHANGED <<shapes, handles, hist, todo, strong, dropped, other, foreign>>

\* the first half of the store as it would be if set_origin took the shape
\* out of a poisoned lock and wrote it all the same
StoreX_force(t) ==
  /\ th[t].pc = "locked"
  /\ th[t].op \in WriteOps
  /\ LET s == th[t].slot IN
       slots' = [slots EXCEPT ![s].shape = store_x(@, th[t].arg)]
  /\ th' = [th EXCEPT ![t].pc = "half"]
  /\ UNCHANGED <<shapes, handles, ret, hist, todo, strong, dropped, other,
                 foreign>>

\* the first half of the store as it would be if the canvas kept one
\* position for all its shapes
StoreX_all(t) ==
  /\ th[t].pc = "locked"
  /\ th[t].op \in WriteOps
  /\ th[t].ok
  /\ slots' = [k \in 1..Len(slots) |->
                [slots[k] EXCEPT !.shape = store_x(@, th[t].arg)]]
  /\ th' = [th EXCEPT ![t].pc = "half"]
  /\ UNCHANGED <<shapes, handles, ret, hist, todo, strong, dropped, other,
                 foreign>>

\* first half of s.set_origin(origin)
StoreX(t) ==
  /\ th[t].pc = "locked"
  /\ th[t].op \in WriteOps
  /\ th[t].ok
  /\ LET s == th[t].slot IN
       slots' = [slots EXCEPT ![s].shape = store_x(@, th[t].arg)]
  /\ th' = [th EXCEPT ![t].pc = "half"]
  /\ UNCHANGED <<shapes, handles, ret, hist, todo, strong, dropped, other,
                 foreign>>

\* the second half of the store as it would be if the canvas's set_origin
\* finished its write in a copy of the shape: only a direct write is whole
StoreY_copy(t) ==
  /\ th[t].pc = "half"
  /\ LET s == th[t].slot IN
       /\ slots' = [slots EXCEPT
                      ![s].shape = IF th[t].op = "write"
                                   THEN store_y(@, th[t].arg) ELSE @,
                      ![s].writer = NoThread]
       /\ hist' = [hist EXCEPT ![th[t].of].last = Some(th[t].arg)]
  /\ ret' = [ret EXCEPT ![t] = Unit]
  /\ th' = [th EXCEPT ![t] = Idle]
  /\ UNCHANGED <<shapes, handles, todo, strong, dropped, other, foreign>>

\* the second half of the store as it would be if the write guard were
\* leaked (mem::forget) instead of dropped: the lock stays taken
StoreY_keep(t) ==
  /\ th[t].pc = "half"
  /\ LET s == th[t].slot IN
       /\ slots' = [slots EXCEPT ![s].shape = store_y(@, th[t].arg)]
       /\ hist' = [hist EXCEPT ![th[t].of].last = Some(th[t].arg)]
  /\ ret' = [ret EXCEPT ![t] = Unit]
  /\ th' = [th EXCEPT ![t] = Idle]
  /\ UNCHANGED <<shapes, handles, todo, strong, dropped, other, foreign>>

\* second half of s.set_origin(origin); the write guard goes out of scope
\* and the call returns
StoreY(t) ==
  /\ th[t].pc = "half"
  /\ LET s == th[t].slot IN
       /\ slots' = [slots EXCEPT ![s].shape = store_y(@, th[t].arg),
                                 ![s].writer = NoThread]
       /\ hist' = [hist EXCEPT ![th[t].of].last = Some(th[t].arg)]
  /\ ret' = [ret EXCEPT ![t] = Unit]
  /\ th' = [th EXCEPT ![t] = Idle]
  /\ UNCHANGED <<shapes, handles, todo, strong, dropped, other, foreign>>

\* the panic as it would be if one lock guarded all the slots of the canvas:
\* every slot is poisoned
PanicHolding_all(t) ==
  /\ th[t].pc = "locked"
  /\ th[t].op \in DirectOps
  /\ th[t].ok
  /\ LET s == th[t].slot IN
       slots' = [k \in 1..Len(slots) |->
                  [slots[k] EXCEPT
                     !.readers = IF k = s THEN @ \ {t} ELSE @,
                     !.writer = IF k = s /\ @ = t THEN NoThread ELSE @,
                     !.poisoned = @ \/ th[t].op = "write"]]
  /\ ret' = [ret EXCEPT ![t] = Panicked]
  /\ th' = [th EXCEPT ![t] = Dead]
  /\ UNCHANGED <<shapes, handles, hist, todo, strong, dropped, other, foreign>>

\* the panic as it would be if the drop of any guard during unwinding
\* poisoned the lock, a read guard too
PanicHolding_any(t) ==
  /\ th[t].pc = "locked"
  /\ th[t].op \in DirectOps
  /\ th[t].ok
  /\ LET s == th[t].slot IN
       slots' = [slots EXCEPT
                   ![s].readers = @ \ {t},
                   ![s].writer = IF @ = t THEN NoThread ELSE @,
                   ![s].poisoned = TRUE]
  /\ ret' = [ret EXCEPT ![t] = Panicked]
  /\ th' = [th EXCEPT ![t] = Dead]
  /\ UNCHANGED <<shapes, handles, hist, todo, strong, dropped, other, foreign>>

\* a thread that took the guard itself panics while it holds it: unwinding
\* drops the guard, and the drop of a write guard poisons the lock
PanicHolding(t) ==
  /\ th[t].pc = "locked"
  /\ th[t].op \in DirectOps
  /\ th[t].ok
  /\ LET s == th[t].slot IN
       slots' = [slots EXCEPT
                   ![s].readers = @ \ {t},
                   ![s].writer = IF @ = t THEN NoThread ELSE @,
                   ![s].poisoned = @ \/ th[t].op = "write"]
  /\ ret' = [ret EXCEPT ![t] = Panicked]
  /\ th' = [th EXCEPT ![t] = Dead]
  /\ UNCHANGED <<shapes, handles, hist, todo, strong, dropped, other, foreign>>

\* ---------------------------------------------------- the concurrent run
\* two threads share the handles of a canvas of rectangles
Next ==
  \/ \E shape \in RectInputs : Add(shape)
  \/ \E i \in 1..MaxHandles : Clone(i)
  \/ \E t \in Threads, op \in ReadOps, r \in Refs : BeginRead(t, op, r)
  \/ \E t \in Threads : EndRead(t)
  \/ \E t \in Threads, op \in WriteOps, r \in Refs, p \in Points :
        BeginWrite(t, op, r, p)
  \/ \E t \in Threads : WriteSkip(t)
  \/ \E t \in Threads : StoreX(t)
  \/ \E t \in Threads : StoreY(t)
  \/ \E t \in Threads : PanicHolding(t)

Spec == Init /\ [][Next]_vars

\* ---------------------------------------------------- the sequential run
\* one thread, shapes of every kind (tests::shared_handle, internal_layout)
Main == 1

SeqNext ==
  \/ \E shape \in ShapeInputs : Add(shape)
  \/ \E i \in 1..MaxHandles : Clone(i)
  \/ \E op \in ReadOps, r \in Refs : BeginRead(Main, op, r)
  \/ EndRead(Main)
  \/ \E op \in WriteOps, r \in Refs, p \in Points : BeginWrite(Main, op, r, p)
  \/ StoreX(Main)
  \/ StoreY(Main)

SpecSeq == Init /\ [][SeqNext]_vars

\* -------------------------------------------------------- the stress run
\* tests::concurrent_access: the canvas holds NumStress rectangles and each
\* thread writes once to every handle, in an order of its own
StressInit ==
  /\ slots = [i \in 1..NumStress |-> RwLock_from(Rectangle(4, 5, <<10, 10>>))]
  /\ shapes = [i \in 1..NumStress |-> i]
  /\ handles = [i \in 1..NumStress |-> [ptr |-> i, of |-> i]]
  /\ th = [t \in Threads |-> Idle]
  /\ ret = [t \in Threads |-> NoRet]
  /\ hist = [i \in 1..NumStress |-> NewHist(Rectangle(4, 5, <<10, 10>>))]
  /\ todo = [t \in Threads |-> 1..NumStress]
  /\ strong = [i \in 1..NumStress |-> 2]
  /\ dropped = FALSE
  /\ other = <<>>
  /\ foreign = [t \in Threads |-> FALSE]

\* handle.write().unwrap().set_origin(p) on the next handle of the shuffle;
\* no thread panics in this run, so no lock is poisoned and unwrap() returns
StressWrite(t, i, p) ==
  /\ i \in todo[t]
  /\ LockWrite(t, "write", handles[i].ptr, handles[i].of, p)
  /\ todo' = [todo EXCEPT ![t] = @ \ {i}]
  /\ UNCHANGED <<shapes, handles, strong, dropped, other, foreign>>

StressStep(t) ==
  \/ \E i \in 1..NumStress, p \in Points : StressWrite(t, i, p)
  \/ StoreX(t)
  \/ StoreY(t)

StressNext == \E t \in Threads : StressStep(t)

SpecStress == StressInit /\ [][StressNext]_vars

\* the scheduler runs every thread that can take a step
SpecStressFair == SpecStress /\ \A t \in Threads : WF_vars(StressStep(t))

\* both threads went through all their handles and were joined
StressDone == \A t \in Threads : todo[t] = {} /\ th[t].pc = "idle"

\* -------------------------------------------------------- the finite run
\* the canvas holds NumStress rectangles, the lock of the first of which may
\* have been poisoned by a thread that is gone; each thread makes NumOps
\* calls of the canvas's methods, on handles and with origins of its choice
RunInit ==
  /\ \E b \in BOOLEAN :
       slots = [i \in 1..NumStress |->
                 [RwLock_from(Rectangle(4, 5, <<10, 10>>))
                    EXCEPT !.poisoned = (b /\ i = 1)]]
  /\ shapes = [i \in 1..NumStress |-> i]
  /\ handles = [i \in 1..NumStress |-> [ptr |-> i, of |-> i]]
  /\ th = [t \in Threads |-> Idle]
  /\ ret = [t \in Threads |-> NoRet]
  /\ hist = [i \in 1..NumStress |-> NewHist(Rectangle(4, 5, <<10, 10>>))]
  /\ todo = [t \in Threads |-> 1..NumOps]
  /\ strong = [i \in 1..NumStress |-> 2]
  /\ dropped = FALSE
  /\ other = <<>>
  /\ foreign = [t \in Threads |-> FALSE]

\* the next call of thread t: canvas.op(&handles[i]) or, for set_origin,
\* canvas.set_origin(&handles[i], p)
RunCall(t, op, i, p) ==
  /\ todo[t] # {}
  /\ op \in CanvasOps
  /\ IF op \in ReadOps
     THEN p = NoPoint /\ LockRead(t, op, handles[i].ptr, handles[i].of)
     ELSE p \in Points /\ LockWrite(t, op, handles[i].ptr, handles[i].of, p)
  /\ todo' = [todo EXCEPT ![t] = @ \ {Cardinality(@)}]
  /\ UNCHANGED <<shapes, handles, strong, dropped, other, foreign>>

RunStep(t) ==
  \/ \E op \in CanvasOps, i \in 1..NumStress, p \in Points \cup {NoPoint} :
        RunCall(t, op, i, p)
  \/ EndRead(t)
  \/ WriteSkip(t)
  \/ StoreX(t)
  \/ StoreY(t)

RunNext == \E t \in Threads : RunStep(t)

SpecRun == RunInit /\ [][RunNext]_vars

\* the scheduler runs every thread that can take a step
SpecRunFair == SpecRun /\ \A t \in Threads : WF_vars(RunStep(t))

\* every thread made all its calls and returned from each of them
RunDone == \A t \in Threads : todo[t] = {} /\ th[t].pc = "idle"

\* ------------------------------------------------------ the ownership run
\* the number of entries of the sequence sh that point to slot s
Count(sh, s) == Cardinality({i \in 1..Len(sh) : sh[i] = s})

\* the sequence without its i-th element
Without(seq, i) == SubSeq(seq, 1, i - 1) \o SubSeq(seq, i + 1, Len(seq))

\* an external handle goes out of scope, outside any call that borrows it:
\* its slot has one owner less
DropHandle(i) ==
  /\ i \in 1..Len(handles)
  /\ \A t \in Threads : th[t].pc \in {"idle", "panicked"}
  /\ handles' = Without(handles, i)
  /\ strong' = [strong EXCEPT ![handles[i].ptr] = @ - 1]
  /\ UNCHANGED <<slots, shapes, th, ret, hist, todo, dropped, other, foreign>>

\* the drop of the canvas as it would be if the canvas owned its shapes
\* alone: the slots are freed with it
DropCanvas_owning ==
  /\ ~dropped
  /\ \A t \in Threads : th[t].pc \in {"idle", "panicked"}
  /\ dropped' = TRUE
  /\ shapes' = <<>>
  /\ strong' = [s \in 1..Len(strong) |->
                 IF Count(shapes, s) > 0 THEN 0 ELSE strong[s]]
  /\ UNCHANGED <<slots, handles, th, ret, hist, todo, other, foreign>>

\* the canvas goes out of scope: the Vec drops its Arcs, one owner less for
\* each entry
DropCanvas ==
  /\ ~dropped
  /\ \A t \in Threads : th[t].pc \in {"idle", "panicked"}
  /\ dropped' = TRUE
  /\ shapes' = <<>>
  /\ strong' = [s \in 1..Len(strong) |-> strong[s] - Count(shapes, s)]
  /\ UNCHANGED <<slots, handles, th, ret, hist, todo, other, foreign>>

\* get_area and get_origin as they would be if they looked the handle up in
\* self.shapes and returned None for a handle that is not there
ReadOther_lookup(t, op, r) ==
  /\ op \in CanvasOps \cap ReadOps
  /\ r \in Refs
  /\ r[1] = "handle"
  /\ th[t].pc = "idle"
  /\ CanRead(slots[Deref(r)])
  /\ slots' = [slots EXCEPT ![Deref(r)].readers = @ \cup {t}]
  /\ th' = [th EXCEPT ![t] =
              [pc |-> "locked", op |-> op, slot |-> Deref(r), of |-> AddOf(r),
               arg |-> NoPoint,
               ok |-> /\ ~slots[Deref(r)].poisoned
                      /\ \E i \in 1..Len(other) : other[i] = Deref(r)]]
  /\ ret' = [ret EXCEPT ![t] = NoRet]
  /\ foreign' = [foreign EXCEPT ![t] = TRUE]
  /\ UNCHANGED <<shapes, handles, hist, todo, strong, dropped, other>>

\* other.get_area(&h), other.get_origin(&h): the methods use the handle and
\* nothing of self
ReadOther(t, op, r) ==
  /\ op \in CanvasOps \cap ReadOps
  /\ r \in Refs
  /\ r[1] = "handle"
  /\ LockRead(t, op, Deref(r), AddOf(r))
  /\ foreign' = [foreign EXCEPT ![t] = TRUE]
  /\ UNCHANGED <<shapes, handles, todo, strong, dropped, other>>

\* other.set_origin(&h, p)
WriteOther(t, r, p) ==
  /\ r \in Refs
  /\ r[1] = "handle"
  /\ LockWrite(t, "set_origin", Deref(r), AddOf(r), p)
  /\ foreign' = [foreign EXCEPT ![t] = TRUE]
  /\ UNCHANGED <<shapes, handles, todo, strong, dropped, other>>

\* one thread adds shapes, clones and drops handles, drops the canvas, and
\* calls the methods on the canvas, on a second canvas and on the handles
OwnNext ==
  \/ \E shape \in RectInputs : Add(shape)
  \/ \E i \in 1..MaxHandles : Clone(i)
  \/ \E i \in 1..MaxHandles : DropHandle(i)
  \/ DropCanvas
  \/ \E op \in ReadOps, r \in Refs : BeginRead(Main, op, r)
  \/ \E op \in CanvasOps \cap ReadOps, r \in Refs : ReadOther(Main, op, r)
  \/ EndRead(Main)
  \/ \E op \in WriteOps, r \in Refs, p \in Points : BeginWrite(Main, op, r, p)
  \/ \E r \in Refs, p \in Points : WriteOther(Main, r, p)
  \/ StoreX(Main)
  \/ StoreY(Main)

SpecOwn == Init /\ [][OwnNext]_vars

TypeOK ==
  /\ ~dropped => Len(shapes) = Len(hist)
  /\ Len(strong) = Len(slots)
  /\ \A i \in 1..Len(shapes) : shapes[i] \in 1..Len(slots)
  /\ \A i \in 1..Len(handles) : handles[i].ptr \in 1..Len(slots)

\* ================================================================ claims
\* thread t returns from a read operation in this step
EndsRead(t) ==
  /\ th[t].pc = "locked"
  /\ th[t].op \in ReadOps
  /\ th'[t].pc = "idle"

\* what a read operation returns of shape o when nothing fails
Returned(op, o) ==
  CASE op = "get_area"   -> Some(get_area(o))
    [] op = "get_origin" -> Some(o.origin)
    [] op = "read"       -> Val(o.origin)

\* C1: a read through the handle that add(O) returned (or a clone of it),
\* before any write has taken the lock of O's slot, returns the origin O was
\* constructed with; get_area through it returns the area of O
C1_HandleIdentity ==
  [][\A t \in Threads :
       (EndsRead(t) /\ (th[t].op = "get_area" \/ hist[th[t].of].acq = NoHist))
         => ret'[t] = Returned(th[t].op, hist[th[t].of].init)]_vars

\* the second shape of the canvas is a rectangle that was never written, the
\* first one was written, and a get_origin returned the rectangle's origin
C1_Witness ==
  /\ Len(shapes) = 2
  /\ hist[2].init = Rectangle(4, 6, <<20, 21>>)
  /\ hist[2].acq = NoHist
  /\ hist[1].last = Some(<<20, 21>>)
  /\ hist[1].init.origin = <<10, 10>>
  /\ ret[Main] = Some(<<20, 21>>)
  /\ th[Main].pc = "idle"

\* thread t is in a write that goes through a handle of the k-th shape
WritesThrough(t, k) ==
  /\ th[t].pc \in {"locked", "half"}
  /\ th[t].op \in WriteOps
  /\ th[t].of = k

\* the origin the history gives the k-th shape: the last one stored, or the
\* one it was inserted with
Expected(k) ==
  IF hist[k].last = NoHist THEN hist[k].init.origin ELSE hist[k].last.val

\* a step changes the k-th shape only as a step of a thread that writes
\* through a handle of the k-th shape, and then only its origin
C2_Frame ==
  \A k \in 1..Len(slots) :
    slots'[k].shape # slots[k].shape =>
      /\ \E t \in Threads : WritesThrough(t, k) /\ th'[t] # th[t]
      /\ [slots'[k].shape EXCEPT !.origin = slots[k].shape.origin]
           = slots[k].shape

\* outside a write in progress, the k-th shape has the area it was inserted
\* with and the origin last stored to it
C2_LastWrite ==
  \A k \in 1..Len(slots) :
    /\ get_area(slots[k].shape) = get_area(hist[k].init)
    /\ slots[k].writer = NoThread => origin(slots[k].shape) = Expected(k)

\* C2: a write through the handle of one shape changes neither the origin
\* nor the area of any other shape, and each shape's origin is the last one
\* written to it, or its initial one when it was never written
C2_IndependentMutation == [][C2_Frame]_vars /\ []C2_LastWrite

\* two shapes: the first was written and read back, the second still has
\* the origin it was inserted with
C2_Witness ==
  /\ Len(slots) = 2
  /\ hist[1].last = Some(<<20, 21>>)
  /\ origin(slots[1].shape) = <<20, 21>>
  /\ hist[2].last = NoHist
  /\ origin(slots[2].shape) = <<10, 10>>
  /\ ret[1] = Some(<<20, 21>>)
  /\ ret[2] = Some(<<10, 10>>)

\* thread t ends a get_origin in this step
EndsGetOrigin(t) ==
  /\ th[t].pc = "locked"
  /\ th[t].op = "get_origin"
  /\ th'[t].pc = "idle"

\* C3: a get_origin on a slot that is not poisoned, started by any thread
\* after a write of P to the slot has returned and before another write
\* takes the lock of the slot, returns Some(P)
C3_WriteVisibility ==
  [][\A t \in Threads :
       (/\ EndsGetOrigin(t)
        /\ hist[th[t].of].last # NoHist
        /\ slots[th[t].of].writer = NoThread
        /\ ~slots[th[t].of].poisoned)
         => ret'[t] = Some(hist[th[t].of].last.val)]_vars

\* one shape: the last call of thread 1 was a write, that of thread 2 a
\* get_origin that returned the pair written, which is not the initial one
C3_Witness ==
  /\ Len(slots) = 1
  /\ hist[1].last = Some(<<20, 21>>)
  /\ hist[1].init.origin = <<10, 10>>
  /\ ~slots[1].poisoned
  /\ ret[1] = Unit
  /\ ret[2] = Some(<<20, 21>>)

\* the handle add returned, its clones and the canvas's entry for that add
\* hold the same slot pointer, and no slot exists besides those of the add
\* calls: a clone is one more pointer, never one more shape
C4_SameSlot ==
  /\ Len(slots) = Len(shapes)
  /\ \A i \in 1..Len(handles) :
       /\ handles[i].of \in 1..Len(shapes)
       /\ handles[i].ptr = shapes[handles[i].of]
  /\ \A t \in Threads :
       th[t].pc \in {"locked", "half"} => th[t].slot = shapes[th[t].of]

\* a read of the origin through any reference that comes from the k-th add
\* returns the origin last written through any reference that comes from it
C4_Observed ==
  \A t \in Threads :
    (EndsRead(t) /\ th[t].op # "get_area" /\ th[t].ok)
      => ret'[t].val = Expected(th[t].of)

\* C4: the handle of an add, its clones and the canvas's copy are one slot,
\* and a write through any of them is what a later read through any other
\* returns
C4_CloneEquivalence == []C4_SameSlot /\ [][C4_Observed]_vars

\* a shape with two handles, written once and read back with the new
\* origin, the canvas's copy pointing to the same slot
C4_Witness ==
  /\ Len(handles) = 2
  /\ handles[1] = handles[2]
  /\ shapes = <<handles[2].ptr>>
  /\ hist[1].last = Some(<<20, 21>>)
  /\ origin(slots[shapes[1]].shape) = <<20, 21>>
  /\ \E t \in Threads : ret[t] = Val(<<20, 21>>)

\* a step leaves shapes alone or appends one entry to it
C6_AppendOnly ==
  \/ shapes' = shapes
  \/ /\ Len(shapes') = Len(shapes) + 1
     /\ SubSeq(shapes', 1, Len(shapes)) = shapes

\* the i-th entry of shapes is the slot of the i-th add call, with the shape
\* that call was given
C6_InOrder ==
  \A i \in 1..Len(shapes) :
    /\ shapes[i] = i
    /\ [slots[shapes[i]].shape EXCEPT !.origin = hist[i].init.origin]
         = hist[i].init

\* C6: shapes lists the slots in the order of the add calls; an add appends
\* and no other operation changes the sequence
C6_InsertionOrder == [][C6_AppendOnly]_vars /\ []C6_InOrder

\* a circle then a rectangle were added, and the circle was moved afterwards
C6_Witness ==
  /\ Len(shapes) = 2
  /\ slots[shapes[1]].shape = Circle(5, <<20, 21>>)
  /\ slots[shapes[2]].shape = Rectangle(4, 6, <<20, 21>>)
  /\ hist[1].last = Some(<<20, 21>>)
  /\ hist[2].last = NoHist

\* the threads that hold the lock of slot s, by what they are doing
ReadersOf(s) ==
  {t \in Threads : th[t].pc = "locked" /\ th[t].op \in ReadOps /\ th[t].slot = s}

WritersOf(s) ==
  {t \in Threads :
     th[t].pc \in {"locked", "half"} /\ th[t].op \in WriteOps /\ th[t].slot = s}

\* C7: each slot has no holder, or readers and no writer, or one writer and
\* no reader; the lock's own fields say the same
C7_ReaderWriterExclusion ==
  \A s \in 1..Len(slots) :
    /\ Cardinality(WritersOf(s)) <= 1
    /\ WritersOf(s) # {} => ReadersOf(s) = {}
    /\ slots[s].readers = ReadersOf(s)
    /\ slots[s].writer = NoThread <=> WritersOf(s) = {}
    /\ slots[s].writer # NoThread => WritersOf(s) = {slots[s].writer}

\* two threads read the same slot at once, through get_area and get_origin
C7_Witness ==
  /\ Len(slots) >= 1
  /\ ReadersOf(1) = Threads
  /\ th[1].op = "get_area"
  /\ th[2].op = "get_origin"

\* a set_origin holds the write lock of a slot that the other thread waits
\* to read: no read of that slot can begin
C7_WitnessWriter ==
  /\ Len(slots) >= 1
  /\ th[1].op = "set_origin"
  /\ th[1].pc = "half"
  /\ th[1].slot = 1
  /\ th[2].pc = "idle"
  /\ ~ENABLED BeginRead(2, "get_origin", <<"handle", 1>>)

\* after the stress run every shape has the origin of the write that took
\* its lock last, and no lock is poisoned
C5_Final ==
  StressDone =>
    \A i \in 1..NumStress :
      /\ hist[i].acq # NoHist
      /\ origin(slots[handles[i].ptr].shape) = hist[i].acq.val
      /\ hist[i].last = hist[i].acq
      /\ ~slots[handles[i].ptr].poisoned
      /\ slots[handles[i].ptr].writer = NoThread

\* C5: two threads that each write once to every handle, in orders of their
\* own, both finish, and then each origin is the one of the write that took
\* the slot's write lock last
C5_ConcurrentStress == <>StressDone /\ []C5_Final

\* both threads are done; the last writes left different origins in the
\* first two shapes
C5_Witness ==
  /\ StressDone
  /\ origin(slots[1].shape) = <<20, 21>>
  /\ origin(slots[2].shape) = <<10, 10>>
  /\ hist[1].acq = Some(<<20, 21>>)
  /\ hist[2].acq = Some(<<10, 10>>)

\* the operations reference r allows
OpsOn(r) == IF r[1] = "handle" THEN CanvasOps \cup DirectOps ELSE DirectOps

\* an idle thread can take the lock of a slot whenever that slot's own lock
\* allows it, whatever the other slots' locks are
C8_CanAcquire ==
  \A t \in Threads, r \in Refs :
    th[t].pc = "idle" =>
      /\ WritersOf(Deref(r)) = {} =>
           \A op \in OpsOn(r) \cap ReadOps : ENABLED BeginRead(t, op, r)
      /\ WritersOf(Deref(r)) \cup ReadersOf(Deref(r)) = {} =>
           \A op \in OpsOn(r) \cap WriteOps, p \in Points :
             ENABLED BeginWrite(t, op, r, p)

\* a thread that holds a lock can finish its operation
C8_CanComplete ==
  \A t \in Threads :
    /\ (th[t].pc = "locked" /\ th[t].op \in ReadOps) => ENABLED EndRead(t)
    /\ (th[t].pc = "locked" /\ th[t].op \in WriteOps) =>
         ENABLED (StoreX(t) \/ WriteSkip(t))
    /\ th[t].pc = "half" => ENABLED StoreY(t)

\* C8: an operation on one slot takes that slot's lock and completes
\* whatever the lock state of the other slots
C8_NoCrossSlotContention == C8_CanAcquire /\ C8_CanComplete

\* thread 1 is in the middle of a set_origin on the first shape while
\* thread 2 holds the write lock of the second
C8_Witness ==
  /\ Len(slots) = 2
  /\ th[1].pc = "half"
  /\ th[1].op = "set_origin"
  /\ th[1].slot = 1
  /\ th[2].pc = "locked"
  /\ th[2].op = "set_origin"
  /\ th[2].slot = 2

\* thread t takes a step of the canvas operation op that it is in
StepsIn(t, op) ==
  /\ th[t].pc = "locked"
  /\ th[t].op = op
  /\ th'[t] # th[t]

\* a get_area or get_origin returns None exactly when the lock is poisoned,
\* and otherwise Some of the value the shape has
C9_Result ==
  \A t \in Threads, op \in {"get_area", "get_origin"} :
    StepsIn(t, op) =>
      LET cell == slots[th[t].slot] IN
        /\ th'[t].pc = "idle"
        /\ ret'[t] = None <=> cell.poisoned
        /\ ~cell.poisoned =>
             ret'[t] = Some(IF op = "get_area" THEN get_area(cell.shape)
                            ELSE cell.shape.origin)

\* a read holds the lock only while no writer does, with the poison flag it
\* found when it took the lock, and no read begins while a writer holds it
C9_Waits ==
  /\ \A t \in Threads :
       (th[t].pc = "locked" /\ th[t].op \in ReadOps) =>
         /\ WritersOf(th[t].slot) = {}
         /\ th[t].ok <=> ~slots[th[t].slot].poisoned
  /\ \A t \in Threads, r \in Refs :
       \A op \in OpsOn(r) \cap ReadOps :
         WritersOf(Deref(r)) # {} => ~ENABLED BeginRead(t, op, r)

\* C9: get_area and get_origin return None if and only if the lock is
\* poisoned when the read lock is taken; on a lock that is not poisoned they
\* wait for the writer and return Some of the current value
C9_AbsentOnlyOnPoison == [][C9_Result]_vars /\ []C9_Waits

\* a canvas read returned None: the lock was poisoned by the other thread
C9_Witness ==
  /\ Len(slots) = 1
  /\ slots[1].poisoned
  /\ ret[1] = None
  /\ th[1].pc = "idle"
  /\ th[2].pc = "panicked"

\* a set_origin that finds the lock poisoned returns () in its next step,
\* changes no shape and leaves the lock free and still poisoned
C10_Skip ==
  \A t \in Threads :
    (StepsIn(t, "set_origin") /\ slots[th[t].slot].poisoned) =>
      /\ th'[t].pc = "idle"
      /\ ret'[t] = Unit
      /\ \A s \in 1..Len(slots) : slots'[s].shape = slots[s].shape
      /\ slots'[th[t].slot].writer = NoThread
      /\ slots'[th[t].slot].readers = {}
      /\ slots'[th[t].slot].poisoned

\* such a set_origin is never stuck
C10_Returns ==
  \A t \in Threads :
    (th[t].pc = "locked" /\ th[t].op = "set_origin"
       /\ slots[th[t].slot].poisoned) => ENABLED WriteSkip(t)

\* C10: set_origin on a slot whose lock is poisoned returns normally,
\* changes nothing of the shape and leaves the lock released
C10_SilentSkip == [][C10_Skip]_vars /\ []C10_Returns

\* the only shape was never written and its lock is poisoned; the last call
\* of thread 1 returned (), so it was a set_origin that was skipped
C10_Witness ==
  /\ Len(slots) = 1
  /\ slots[1].poisoned
  /\ slots[1].writer = NoThread
  /\ hist[1].last = NoHist
  /\ origin(slots[1].shape) = hist[1].init.origin
  /\ ret[1] = Unit
  /\ th[1].pc = "idle"
  /\ th[2].pc = "panicked"

\* the step that poisons slot s changes nothing else: the canvas's sequence,
\* every other slot with its lock and its flag, and the threads that are not
\* the one that panicked stay as they are
C11_PoisonStep ==
  \A s \in 1..Len(slots) :
    (~slots[s].poisoned /\ slots'[s].poisoned) =>
      /\ shapes' = shapes
      /\ Len(slots') = Len(slots)
      /\ \A s2 \in 1..Len(slots) : s2 # s => slots'[s2] = slots[s2]
      /\ \A t \in Threads :
           th[t].slot # s => (th'[t] = th[t] /\ ret'[t] = ret[t])

\* an operation finds a failure exactly when the lock of its own slot is
\* poisoned, whatever the flags of the other slots
C11_OwnSlotOnly ==
  \A t \in Threads :
    th[t].pc \in {"locked", "half"} =>
      (th[t].ok <=> ~slots[th[t].slot].poisoned)

\* a read of a slot that is not poisoned returns the value of the shape, and
\* a write to it stores the pair it was given
C11_Results ==
  \A t \in Threads :
    /\ (EndsRead(t) /\ ~slots[th[t].slot].poisoned) =>
         ret'[t] = Returned(th[t].op, slots[th[t].slot].shape)
    /\ (th[t].pc = "half" /\ th'[t] # th[t]) =>
         /\ origin(slots'[th[t].slot].shape) = th[t].arg
         /\ ret'[t] = Unit

\* add is possible with a poisoned slot in the canvas as it is without one
C11_AddEnabled ==
  (/\ \E s \in 1..Len(slots) : slots[s].poisoned
   /\ Len(shapes) < MaxShapes
   /\ Len(handles) < MaxHandles
   /\ \A t \in Threads : ~InCanvasCall(t))
    => \A shape \in RectInputs : ENABLED Add(shape)

\* C11: when the lock of one slot becomes poisoned, the operations on every
\* other slot and add behave as without the failure: the canvas's sequence
\* is unchanged, no other slot becomes poisoned, and reads and writes of the
\* other slots return and store what they do on a canvas without failure
C11_FailureIsolation ==
  /\ [][C11_PoisonStep /\ C11_Results]_vars
  /\ [](C11_OwnSlotOnly /\ C11_AddEnabled)

\* the first slot is poisoned by the thread that panicked; the second was
\* written and the last call of the other thread read the new origin back
C11_Witness ==
  /\ Len(slots) = 2
  /\ slots[1].poisoned
  /\ ~slots[2].poisoned
  /\ hist[1].last = NoHist
  /\ hist[2].last = Some(<<20, 21>>)
  /\ \E t \in Threads :
       /\ th[t].pc = "idle"
       /\ ret[t] = Some(<<20, 21>>)
       /\ \E u \in Threads \ {t} : th[u].pc = "panicked"

\* add needs the canvas to itself (&mut self) and nothing of the slots: it
\* is enabled whoever holds the lock of a slot and whatever slot is poisoned
C12_Enabled ==
  (/\ Len(shapes) < MaxShapes
   /\ Len(handles) < MaxHandles
   /\ \A t \in Threads : ~InCanvasCall(t))
    => \A shape \in RectInputs : ENABLED Add(shape)

\* the step of an add leaves every existing slot with its lock as it is, and
\* every thread where it is in its operation; the new slot's lock is free
C12_AddStep ==
  Len(shapes') = Len(shapes) + 1 =>
    /\ \A s \in 1..Len(slots) : slots'[s] = slots[s]
    /\ th' = th
    /\ ret' = ret
    /\ Len(slots') = Len(slots) + 1
    /\ CanWrite(slots'[Len(slots')])
    /\ ~slots'[Len(slots')].poisoned

\* C12: add takes the lock of no slot: it is enabled while threads hold read
\* or write locks of slots through handles of their own and while a slot is
\* poisoned, and its step changes no lock and no operation in progress
C12_InsertionIndependence == []C12_Enabled /\ [][C12_AddStep]_vars

\* one shape was added; thread 1 is in the middle of a direct write to it,
\* and a second add is possible
C12_Witness ==
  /\ Len(shapes) = 1
  /\ slots[1].writer = 1
  /\ th[1].pc = "half"
  /\ th[1].op = "write"
  /\ ENABLED Add(Rectangle(4, 5, <<10, 10>>))

\* while the canvas lives, shapes has one entry per add call made so far,
\* the i-th for the i-th call; each entry points to a slot that is not
\* freed, holds the shape of its call with the origin last written, and can
\* be read through the canvas whenever no writer holds its lock
C13_Retained ==
  ~dropped =>
    /\ Len(shapes) = Len(hist)
    /\ \A i \in 1..Len(shapes) :
         /\ shapes[i] = i
         /\ strong[shapes[i]] >= 1
         /\ [slots[shapes[i]].shape EXCEPT !.origin = hist[i].init.origin]
              = hist[i].init
         /\ slots[shapes[i]].writer = NoThread =>
              origin(slots[shapes[i]].shape) = Expected(i)
         /\ th[Main].pc = "idle" =>
              ENABLED BeginRead(Main, "read", <<"canvas", i>>)

\* while the canvas lives, no step removes or replaces an entry of shapes
C13_NoRemoval ==
  ~dropped' =>
    /\ Len(shapes') >= Len(shapes)
    /\ \A i \in 1..Len(shapes) : shapes'[i] = shapes[i]

\* C13: after n add calls shapes holds n entries, one per call; no
\* operation removes or replaces an entry, and every slot stays reachable
\* through the canvas while the canvas lives, also once every external
\* handle to it was dropped
C13_ContainerRetention == []C13_Retained /\ [][C13_NoRemoval]_vars

\* two shapes were added, the first was written, every external handle was
\* dropped, and the thread now reads the first shape through the canvas
C13_Witness ==
  /\ ~dropped
  /\ handles = <<>>
  /\ Len(shapes) = 2
  /\ hist[1].last = Some(<<20, 21>>)
  /\ origin(slots[shapes[1]].shape) = <<20, 21>>
  /\ strong[shapes[1]] = 1
  /\ th[Main].pc = "locked"
  /\ th[Main].op = "read"
  /\ th[Main].slot = shapes[1]

\* the shape of the k-th add call as the last finished write left it
Current(k) == [hist[k].init EXCEPT !.origin = Expected(k)]

\* a write that ends, through the canvas or directly, leaves in the slot the
\* shape that Shape::set_origin makes of the one the write found, and the
\* lock free and not poisoned
C14_Write ==
  \A t \in Threads :
    (th[t].pc = "half" /\ th'[t] # th[t]) =>
      /\ slots'[th[t].slot] =
           RwLock_from(set_origin(Current(th[t].of), th[t].arg))
      /\ ret'[t] = Unit
      /\ th'[t].pc = "idle"

\* a read that ends on a lock that is not poisoned returns the value of the
\* shape in the slot, which is the one the last write left, whatever its
\* path: Some of it through the canvas, the value itself through the handle
C14_Read ==
  \A t \in Threads :
    (EndsRead(t) /\ th[t].ok) =>
      LET shape == slots[th[t].slot].shape IN
        /\ th[t].op = "get_origin" => ret'[t] = Some(origin(shape))
        /\ th[t].op = "read" => ret'[t] = Val(origin(shape))
        /\ th[t].op = "get_area" => ret'[t] = Some(get_area(shape))
        /\ shape = Current(th[t].of)

\* C14: on a slot that is not poisoned, set_origin through the canvas
\* leaves the same state as a direct write of the same pair, and get_origin
\* and get_area return Some of what a direct read gives, in any mix of the
\* two paths on the same handle
C14_DirectEquivalence == [][C14_Write /\ C14_Read]_vars

\* the shape was moved; the last call of thread 1 was a direct read and that
\* of thread 2 a get_origin, and both returned the new origin
C14_Witness ==
  /\ Len(slots) = 1
  /\ hist[1].init.origin = <<10, 10>>
  /\ hist[1].last = Some(<<20, 21>>)
  /\ ret[1] = Val(<<20, 21>>)
  /\ ret[2] = Some(<<20, 21>>)
  /\ th[1].pc = "idle"
  /\ th[2].pc = "idle"

\* v is a whole pair for the k-th shape: the origin it was inserted with or
\* a pair that a write was given
Whole(k, v) == v = hist[k].init.origin \/ v \in Points

\* every get_origin that returns Some returns a whole pair
C15_WholeReads ==
  \A t \in Threads :
    (EndsGetOrigin(t) /\ th[t].ok) =>
      /\ ret'[t].tag = "Some"
      /\ Whole(th[t].of, ret'[t].val)

\* a slot holds a pair that is not whole only between the two stores of one
\* write, and then that write is alone on the slot: no reader and no other
\* writer holds the lock
C15_Exclusive ==
  \A s \in 1..Len(slots) :
    /\ Cardinality(WritersOf(s)) <= 1
    /\ ~Whole(s, origin(slots[s].shape)) =>
         /\ \E t \in WritersOf(s) : th[t].pc = "half"
         /\ ReadersOf(s) = {}

\* C15: with threads that write different pairs to one slot while others
\* read it, every get_origin returns the initial origin or the whole pair
\* of one write, never the x of one write with the y of another, and two
\* writes to one slot never overlap
C15_NoTornWrites == [][C15_WholeReads]_vars /\ []C15_Exclusive

\* thread 2 is between the two stores of a set_origin of (10, 10) over
\* (20, 21), so the slot holds (10, 21); the get_origin of thread 1 returned
\* the whole pair written before
C15_Witness ==
  /\ Len(slots) = 1
  /\ th[2].pc = "half"
  /\ th[2].op = "set_origin"
  /\ th[2].arg = <<10, 10>>
  /\ origin(slots[1].shape) = <<10, 21>>
  /\ th[1].pc = "idle"
  /\ ret[1] = Some(<<20, 21>>)

\* the owners of slot s: the external handles that point to it and the
\* canvas's entry for it
Owners(s) ==
  Cardinality({i \in 1..Len(handles) : handles[i].ptr = s}) + Count(shapes, s)

\* the strong count of a slot is the number of its owners: the slot is
\* freed when it has none and only then
C16_Counted ==
  \A s \in 1..Len(slots) : strong[s] = Owners(s)

\* no handle, no entry of the canvas and no guard of a thread points to a
\* freed slot
C16_NoDangling ==
  /\ \A i \in 1..Len(handles) : strong[handles[i].ptr] >= 1
  /\ \A i \in 1..Len(shapes) : strong[shapes[i]] >= 1
  /\ \A t \in Threads :
       th[t].pc \in {"locked", "half"} => strong[th[t].slot] >= 1

\* a handle gives the shape of its add call with the origin last written,
\* and can be read whenever no writer holds the lock, with or without the
\* canvas
C16_Usable ==
  \A i \in 1..Len(handles) :
    /\ slots[handles[i].ptr].writer = NoThread =>
         slots[handles[i].ptr].shape = Current(handles[i].of)
    /\ th[Main].pc = "idle" =>
         ENABLED BeginRead(Main, "read", <<"handle", i>>)

\* a step frees a slot only by dropping its last owner, and the drop of the
\* canvas frees no slot that has a handle
C16_Freed ==
  \A s \in 1..Len(slots) :
    (strong[s] > 0 /\ strong'[s] = 0) =>
      /\ Owners(s) = 1
      /\ \A i \in 1..Len(handles') : handles'[i].ptr # s
      /\ \A i \in 1..Len(shapes') : shapes'[i] # s

\* C16: a slot exists while it has an owner, the canvas's copy or an
\* external handle; after the drop of the canvas a handle still gives the
\* last state written to its slot; a slot is freed only when its last owner
\* is dropped, and no handle dangles
C16_SharedOwnership ==
  /\ [](C16_Counted /\ C16_NoDangling /\ C16_Usable)
  /\ [][C16_Freed]_vars

\* the canvas was dropped: the second slot had no handle left and is freed,
\* the first is kept by its handle alone, and the thread reads through that
\* handle the origin written earlier
C16_Witness ==
  /\ dropped
  /\ Len(slots) = 2
  /\ strong = <<1, 0>>
  /\ Len(handles) = 1
  /\ handles[1].ptr = 1
  /\ hist[1].init.origin = <<10, 10>>
  /\ origin(slots[1].shape) = <<20, 21>>
  /\ th[Main].pc = "locked"
  /\ th[Main].op = "read"
  /\ th[Main].slot = 1

\* a poisoned lock stays poisoned and its shape is never written again
C17_Permanent ==
  \A s \in 1..Len(slots) :
    slots[s].poisoned =>
      /\ slots'[s].poisoned
      /\ slots'[s].shape = slots[s].shape

\* on a poisoned lock every step of get_area and get_origin returns None,
\* and every step of set_origin returns () and leaves the slots as they are
\* but for the release of the lock
C17_Absent ==
  \A t \in Threads :
    \A op \in CanvasOps :
      (StepsIn(t, op) /\ slots[th[t].slot].poisoned) =>
        /\ th'[t].pc = "idle"
        /\ ret'[t] = IF op \in ReadOps THEN None ELSE Unit
        /\ \A s \in 1..Len(slots) :
             /\ slots'[s].shape = slots[s].shape
             /\ slots'[s].poisoned = slots[s].poisoned

\* a lock becomes poisoned only in the step of a thread that panics while
\* it holds the write guard; a thread that panics with a read guard leaves
\* the flag as it is
C17_OnlyWriter ==
  /\ \A s \in 1..Len(slots) :
       (~slots[s].poisoned /\ slots'[s].poisoned) =>
         \E t \in Threads :
           /\ slots[s].writer = t
           /\ th[t].op = "write"
           /\ th'[t].pc = "panicked"
  /\ \A t \in Threads :
       (th[t].pc = "locked" /\ th[t].op \in ReadOps
          /\ th'[t].pc = "panicked") =>
         \A s \in 1..Len(slots) : slots'[s].poisoned = slots[s].poisoned

\* C17: once a thread panicked with the write guard of a slot, the lock is
\* poisoned for the rest of the run: every later get_area and get_origin on
\* it returns None and every later set_origin changes nothing; a thread
\* that panics with a read guard only does not poison the lock
C17_PoisonPermanent == [][C17_Permanent /\ C17_Absent /\ C17_OnlyWriter]_vars

\* the shape was moved, then thread 2 panicked with its write guard; thread
\* 1 called get_origin afterwards, found the lock poisoned and is about to
\* return None, the shape still where the write left it
C17_Witness ==
  /\ Len(slots) = 1
  /\ slots[1].poisoned
  /\ th[2].pc = "panicked"
  /\ hist[1].last = Some(<<20, 21>>)
  /\ origin(slots[1].shape) = <<20, 21>>
  /\ th[1].pc = "locked"
  /\ th[1].op = "get_origin"
  /\ ~th[1].ok

\* thread 2 panicked with a read guard: the only lock is not poisoned and
\* the get_origin of thread 1 returned the origin
C17_WitnessReader ==
  /\ Len(slots) = 1
  /\ ~slots[1].poisoned
  /\ th[2].pc = "panicked"
  /\ th[1].pc = "idle"
  /\ ret[1] = Some(<<10, 10>>)

\* the slots of which thread t holds the lock
Held(t) ==
  {s \in 1..Len(slots) : t \in slots[s].readers \/ slots[s].writer = t}

\* a thread inside a call holds the lock of the slot of that call and no
\* other; a thread outside a call holds none
C18_OneLock ==
  \A t \in Threads :
    /\ th[t].pc = "idle" => Held(t) = {}
    /\ th[t].pc # "idle" => Held(t) = {th[t].slot}

\* a thread that holds a lock never waits: its next step is enabled; and a
\* call that cannot begin waits for a lock that another thread holds
C18_NoWaitWhileHolding ==
  \A t \in Threads :
    /\ th[t].pc # "idle" =>
         ENABLED (EndRead(t) \/ WriteSkip(t) \/ StoreX(t) \/ StoreY(t))
    /\ (th[t].pc = "idle" /\ todo[t] # {}) =>
         \A i \in 1..NumStress :
           /\ \/ ENABLED RunCall(t, "get_origin", i, NoPoint)
              \/ \E u \in Threads \ {t} : Held(u) = {handles[i].ptr}
           /\ \/ \A pt \in Points : ENABLED RunCall(t, "set_origin", i, pt)
              \/ \E u \in Threads \ {t} : Held(u) = {handles[i].ptr}

\* no state but the final one is without a next step
C18_NoDeadlock == RunDone \/ ENABLED RunNext

\* C18: each call holds the lock of one slot and releases it before it
\* returns; with two threads that each make a finite number of calls no
\* deadlock is reachable, and under a fair scheduler every call returns and
\* every thread ends
C18_DeadlockFreedom ==
  /\ [](C18_OneLock /\ C18_NoWaitWhileHolding /\ C18_NoDeadlock)
  /\ <>RunDone

\* both threads made all their calls: the last of thread 1 was a get_origin
\* that returned what the set_origin of thread 2 stored, and the lock of
\* the first slot was poisoned all along
C18_Witness ==
  /\ RunDone
  /\ slots[1].poisoned
  /\ hist[2].last = Some(<<20, 21>>)
  /\ ret[1] = Some(<<20, 21>>)
  /\ ret[2] = Unit
  /\ \A s \in 1..Len(slots) : slots[s].writer = NoThread /\ slots[s].readers = {}

\* a get_area or get_origin that ends returns Some of the value of the shape
\* in the slot of its handle, or None when that lock is poisoned, on
\* whichever canvas it was called; a set_origin that ends has stored its
\* pair in the slot of its handle and changed no other slot
C19_SlotOnly ==
  \A t \in Threads :
    /\ (EndsRead(t) /\ th[t].op \in CanvasOps) =>
         /\ th[t].slot = th[t].of
         /\ ret'[t] = IF slots[th[t].slot].poisoned THEN None
                      ELSE Returned(th[t].op, Current(th[t].of))
    /\ (th[t].pc = "half" /\ th[t].op = "set_origin" /\ th'[t] # th[t]) =>
         /\ slots'[th[t].of].shape = set_origin(Current(th[t].of), th[t].arg)
         /\ \A s \in 1..Len(slots) : s # th[t].of => slots'[s] = slots[s]

\* no step of a call changes the shapes of the canvas or of the second one
C19_Frame ==
  \A t \in Threads :
    th'[t] # th[t] => (shapes' = shapes /\ other' = other)

\* a call on the second canvas can begin whenever the lock of the handle's
\* slot allows it, as the same call on the canvas that issued the handle
C19_SameGuard ==
  \A i \in 1..Len(handles) :
    th[Main].pc = "idle" =>
      /\ \A op \in CanvasOps \cap ReadOps :
           /\ ENABLED ReadOther(Main, op, <<"handle", i>>)
           /\ ~dropped => ENABLED BeginRead(Main, op, <<"handle", i>>)
      /\ \A pt \in Points :
           /\ ENABLED WriteOther(Main, <<"handle", i>>, pt)
           /\ ~dropped =>
                ENABLED BeginWrite(Main, "set_origin", <<"handle", i>>, pt)

\* C19: what get_area, get_origin and set_origin return and do depends on
\* the slot of the handle only, never on the canvas they are called on:
\* there is no handle-not-found outcome, a call on a canvas that did not
\* issue the handle reads and writes the handle's slot as the issuing
\* canvas does, and the shapes of both canvases stay as they are
C19_ContainerNotConsulted ==
  /\ [][C19_SlotOnly /\ C19_Frame]_vars
  /\ []C19_SameGuard

\* the shape was moved; the last call was a get_origin on the second
\* canvas, which is empty, and it returned the new origin
C19_Witness ==
  /\ Len(shapes) = 1
  /\ other = <<>>
  /\ hist[1].init.origin = <<10, 10>>
  /\ hist[1].last = Some(<<20, 21>>)
  /\ foreign[Main]
  /\ th[Main].pc = "idle"
  /\ ret[Main] = Some(<<20, 21>>)
====
